---- MODULE Spec2Model ----
(***************************************************************************)
(* Model of the qBittorrent WebUI client wrapper (api.py) and of the tool  *)
(* callables that expose it (main.py).                                      *)
(*                                                                          *)
(* A Python string is a sequence of lexemes (TLA+ strings that stand for a  *)
(* run of characters); a Python value is a tagged record                    *)
(*   [t |-> "null"], [t |-> "bool", v], [t |-> "num", v],                   *)
(*   [t |-> "str", v |-> lexemes], [t |-> "list", v |-> values],            *)
(*   [t |-> "dict", v |-> <<[k |-> lexemes, v |-> value], ...>>].           *)
(* A formatted message (an f-string) is a sequence of parts                 *)
(*   [k |-> "lit", s], [k |-> "str", v], [k |-> "int", n], [k |-> "exc", e] *)
(***************************************************************************)
EXTENDS Integers, Sequences, FiniteSets, TLC

\* ------------------------------------------------------------------ bounds
NumCalls == 2

\* --------------------------------------------------------------- lexemes
QT == "\""
WS == " "
Digits == {"0", "1", "5"}

DigitVal(d) == CASE d = "0" -> 0 [] d = "1" -> 1 [] d = "5" -> 5

PyNull == [t |-> "null"]
PyBool(b) == [t |-> "bool", v |-> b]
PyNum(n) == [t |-> "num", v |-> n]
PyStr(s) == [t |-> "str", v |-> s]
PyList(l) == [t |-> "list", v |-> l]
PyDict(m) == [t |-> "dict", v |-> m]

Drop(s, n) == IF n >= Len(s) THEN <<>> ELSE SubSeq(s, n + 1, Len(s))

RECURSIVE SkipWs(_)
SkipWs(s) == IF s /= <<>> /\ Head(s) = WS THEN SkipWs(Tail(s)) ELSE s

RECURSIVE RStripWs(_)
RStripWs(s) ==
    IF s /= <<>> /\ s[Len(s)] = WS THEN RStripWs(SubSeq(s, 1, Len(s) - 1)) ELSE s

\* str.strip()
Strip(s) == RStripWs(SkipWs(s))

\* ------------------------------------------------------------ json.loads
ParseFail == [ok |-> FALSE, val |-> PyNull, rest |-> <<>>]
ParseOk(v, r) == [ok |-> TRUE, val |-> v, rest |-> r]

\* index of the first quote lexeme of s, 0 when there is none
RECURSIVE QuoteAt(_, _)
QuoteAt(s, i) ==
    IF i > Len(s) THEN 0 ELSE IF s[i] = QT THEN i ELSE QuoteAt(s, i + 1)

\* s starts right after an opening quote
ParseStringBody(s) ==
    LET q == QuoteAt(s, 1)
    IN  IF q = 0 THEN ParseFail
        ELSE ParseOk(PyStr(SubSeq(s, 1, q - 1)), Drop(s, q))

RECURSIVE ParseValue(_)
RECURSIVE ParseElems(_, _)
RECURSIVE ParseMembers(_, _)

\* s starts at the first element of a non-empty array; acc: elements so far
ParseElems(s, acc) ==
    LET e == ParseValue(s)
        r == SkipWs(e.rest)
    IN  IF ~e.ok \/ r = <<>> THEN ParseFail
        ELSE IF Head(r) = "]" THEN ParseOk(PyList(Append(acc, e.val)), Tail(r))
        ELSE IF Head(r) = "," THEN ParseElems(Tail(r), Append(acc, e.val))
        ELSE ParseFail

\* s starts at the first member of a non-empty object; acc: members so far
ParseMembers(s, acc) ==
    LET s1 == SkipWs(s)
    IN  IF s1 = <<>> \/ Head(s1) /= QT THEN ParseFail
        ELSE LET k == ParseStringBody(Tail(s1))
                 s2 == SkipWs(k.rest)
             IN  IF ~k.ok \/ s2 = <<>> \/ Head(s2) /= ":" THEN ParseFail
                 ELSE LET e == ParseValue(Tail(s2))
                          r == SkipWs(e.rest)
                          m == Append(acc, [k |-> k.val.v, v |-> e.val])
                      IN  IF ~e.ok \/ r = <<>> THEN ParseFail
                          ELSE IF Head(r) = "}" THEN ParseOk(PyDict(m), Tail(r))
                          ELSE IF Head(r) = "," THEN ParseMembers(Tail(r), m)
                          ELSE ParseFail

ParseValue(s) ==
    LET s1 == SkipWs(s)
    IN  IF s1 = <<>> THEN ParseFail
        ELSE LET h == Head(s1)
                 r == Tail(s1)
             IN  CASE h = "null" -> ParseOk(PyNull, r)
                   [] h = "true" -> ParseOk(PyBool(TRUE), r)
                   [] h = "false" -> ParseOk(PyBool(FALSE), r)
                   [] h \in Digits -> ParseOk(PyNum(DigitVal(h)), r)
                   [] h = QT -> ParseStringBody(r)
                   [] h = "[" ->
                        IF SkipWs(r) /= <<>> /\ Head(SkipWs(r)) = "]"
                        THEN ParseOk(PyList(<<>>), Tail(SkipWs(r)))
                        ELSE ParseElems(r, <<>>)
                   [] h = "{" ->
                        IF SkipWs(r) /= <<>> /\ Head(SkipWs(r)) = "}"
                        THEN ParseOk(PyDict(<<>>), Tail(SkipWs(r)))
                        ELSE ParseMembers(r, <<>>)
                   [] OTHER -> ParseFail

\* json.loads(text): ok = FALSE stands for json.JSONDecodeError
JsonLoads(text) ==
    LET p == ParseValue(text)
    IN  IF p.ok /\ SkipWs(p.rest) = <<>> THEN p ELSE ParseFail

\* key in data, data[key]; a repeated key keeps its last value
HasKey(d, key) == \E i \in 1..Len(d.v) : d.v[i].k = key
GetKey(d, key) ==
    LET i == CHOOSE j \in 1..Len(d.v) :
                 d.v[j].k = key /\ \A l \in (j + 1)..Len(d.v) : d.v[l].k /= key
    IN  d.v[i].v

\* bool(value)
Truthy(x) ==
    CASE x.t = "null" -> FALSE
      [] x.t = "bool" -> x.v
      [] x.t = "num" -> x.v /= 0
      [] x.t \in {"str", "list", "dict"} -> x.v /= <<>>

\* ----------------------------------------------------------- formatting
Lit(s) == [k |-> "lit", s |-> s]
FStr(s) == [k |-> "str", v |-> s]
FInt(n) == [k |-> "int", n |-> n]
FExc(e) == [k |-> "exc", e |-> e]
NL == Lit("\n")

\* "\n".join(lines)
RECURSIVE JoinLines(_)
JoinLines(lines) ==
    IF lines = <<>> THEN <<>>
    ELSE IF Len(lines) = 1 THEN lines[1]
    ELSE lines[1] \o <<NL>> \o JoinLines(Tail(lines))

\* ------------------------------------------------- process configuration
DEFAULT_HOST == <<"http://", "127.0.0.1:8080">>
DEFAULT_USERNAME == <<"admin">>
DEFAULT_PASSWORD == <<"adminadmin">>
\* default of the host, username and password parameters of the operations
EmptyStr == <<>>

DefaultConfig ==
    [host |-> DEFAULT_HOST, username |-> DEFAULT_USERNAME, password |-> DEFAULT_PASSWORD]
NoConfig == [host |-> EmptyStr, username |-> EmptyStr, password |-> EmptyStr]

\* ------------------------------------------------------------ operations
SingleShotOps ==
    {"delete_torrent_api", "pause_torrent_api", "resume_torrent_api",
     "get_torrent_trackers_urls", "set_global_download_limit_api",
     "set_global_upload_limit_api", "get_application_version_api",
     "set_file_priority_api", "set_torrent_download_limit_api",
     "set_torrent_upload_limit_api", "add_trackers_to_torrent_api",
     "add_torrent_tags_api", "get_torrent_list_api"}

ApiOps == {"add_torrent_api"} \cup SingleShotOps

LOGIN_PATH == "/api/v2/auth/login"
ADD_PATH == "/api/v2/torrents/add"

\* method and path of the one action request of each single-shot operation
Endpoint(o) ==
    CASE o = "delete_torrent_api" ->
            [method |-> "POST", path |-> "/api/v2/torrents/delete"]
      [] o = "pause_torrent_api" ->
            [method |-> "POST", path |-> "/api/v2/torrents/stop"]
      [] o = "resume_torrent_api" ->
            [method |-> "POST", path |-> "/api/v2/torrents/start"]
      [] o = "get_torrent_trackers_urls" ->
            [method |-> "GET", path |-> "/api/v2/torrents/trackers"]
      [] o = "set_global_download_limit_api" ->
            [method |-> "POST", path |-> "/api/v2/transfer/setDownloadLimit"]
      [] o = "set_global_upload_limit_api" ->
            [method |-> "POST", path |-> "/api/v2/transfer/setUploadLimit"]
      [] o = "get_application_version_api" ->
            [method |-> "GET", path |-> "/api/v2/app/version"]
      [] o = "set_file_priority_api" ->
            [method |-> "POST", path |-> "/api/v2/torrents/filePrio"]
      [] o = "set_torrent_download_limit_api" ->
            [method |-> "POST", path |-> "/api/v2/torrents/setDownloadLimit"]
      [] o = "set_torrent_upload_limit_api" ->
            [method |-> "POST", path |-> "/api/v2/torrents/setUploadLimit"]
      [] o = "add_trackers_to_torrent_api" ->
            [method |-> "POST", path |-> "/api/v2/torrents/addTrackers"]
      [] o = "add_torrent_tags_api" ->
            [method |-> "POST", path |-> "/api/v2/torrents/addTags"]
      [] o = "get_torrent_list_api" ->
            [method |-> "GET", path |-> "/api/v2/torrents/info"]

\* ------------------------------------------------------------ file system
MaxPaths == 2

PathA == <<"a.torrent">>
PathB == <<"b.torrent">>
PathC == <<"dir", "/", "c.torrent">>
PathD == <<"dir", "/", "d.torrent">>
Paths == {PathA, PathB, PathC, PathD}

\* os.path.exists(path)
PathExists(path) == path \in {PathA, PathC, PathD}
\* open(path, 'rb') and read() succeed
Readable(path) == path \in {PathA, PathD}

RECURSIVE LastSlash(_, _)
LastSlash(path, i) ==
    IF i = 0 THEN 0 ELSE IF path[i] = "/" THEN i ELSE LastSlash(path, i - 1)

\* os.path.basename(path)
Basename(path) == Drop(path, LastSlash(path, Len(path)))

\* ------------------------------------------------------------ input values
PathLists == UNION {[1..n -> Paths] : n \in 0..MaxPaths}

\* the JSON text of a list of strings
RECURSIVE DumpElems(_)
DumpElems(l) ==
    IF l = <<>> THEN <<>>
    ELSE <<QT>> \o Head(l) \o <<QT>>
         \o (IF Len(l) > 1 THEN <<",", WS>> ELSE <<>>) \o DumpElems(Tail(l))

ArrayText(l) == <<"[">> \o DumpElems(l) \o <<"]">>
ObjectText(key, l) == <<"{", QT, key, QT, ":", WS>> \o ArrayText(l) \o <<"}">>

OddQueries ==
    { <<"not json, not a path">>,
      <<>>,
      <<WS, "a.torrent", WS>>,
      <<"5">>, <<"0">>, <<"null">>, <<"true">>,
      <<QT, "a.torrent", QT>>,
      <<"{", "}">>,
      ObjectText("x", <<PathA>>),
      <<"{", QT, "file_paths", QT, ":", "null", "}">>,
      <<"{", QT, "file_paths", QT, ":", "5", "}">>,
      <<"{", QT, "file_paths", QT, ":", "[", "]", ",",
             QT, "file_paths", QT, ":", "[", QT, "a.torrent", QT, "]", "}">>,
      <<"[", QT, "a.torrent", QT, ",", "null", "]">>,
      <<"[", "null", ",", QT, "a.torrent", QT, "]">>,
      <<"[", QT, "a.torrent", QT>>,
      <<"[", QT, "a.torrent", QT, "]", "x">>,
      <<"[", QT, "a.torrent", "]">> }

Queries ==
    {ArrayText(l) : l \in PathLists}
    \cup {ObjectText("file_paths", l) : l \in PathLists}
    \cup Paths
    \cup OddQueries

HashAll == <<"all">>
HashList == <<"h1", "|", "h2">>
HashOne == <<"h1">>

\* the hashes delete is called with: "all", a list, and values close to "all"
DeleteHashes ==
    {HashAll, HashList, <<"ALL">>, <<WS, "all">>, <<"all", "|", "h1">>, EmptyStr}

\* the arguments of an operation, without host, username and password
OpArgs(o) ==
    CASE o = "add_torrent_api" -> {[query |-> q] : q \in Queries}
      [] o = "delete_torrent_api" ->
            {[hashes |-> h, delete_files |-> d] : h \in DeleteHashes, d \in BOOLEAN}
      [] o \in {"pause_torrent_api", "resume_torrent_api"} ->
            {[hashes |-> h] : h \in {HashAll, HashList}}
      [] o = "get_torrent_trackers_urls" -> {[hash |-> HashOne]}
      [] o \in {"set_global_download_limit_api", "set_global_upload_limit_api"} ->
            {[limit |-> 1024]}
      [] o \in {"get_application_version_api", "get_torrent_list_api"} ->
            {[none |-> TRUE]}
      [] o = "set_file_priority_api" ->
            {[hash |-> HashOne, id |-> <<"0">>, priority |-> 7]}
      [] o \in {"set_torrent_download_limit_api", "set_torrent_upload_limit_api"} ->
            {[hash |-> HashOne, limit |-> 1024]}
      [] o = "add_trackers_to_torrent_api" ->
            {[hash |-> HashOne, trackers |-> <<"udp://tracker.example:80">>]}
      [] o = "add_torrent_tags_api" ->
            {[hash |-> HashOne, tags |-> <<"TagName1", ",", "TagName2">>]}

\* ------------------------------------------------------- the remote service
Statuses == {200, 403, 415, 500}
Sids == {"sidA", "sidB"}
\* the cookies of a response: none, or one SID cookie
Jars == {{}} \cup {{[name |-> "SID", value |-> v]} : v \in Sids}

TransportErrors == {"ConnectError", "ReadTimeout"}

DhtUrl == <<"** [", "DHT", "] **">>
RealUrl == <<"udp://tracker.example:80">>
OtherUrl == <<"http://", "t.example/announce">>

\* a url that holds the marker of the special trackers, but not at its start
MarkedUrl == <<"udp://", "** [", "x">>
TrackerUrlSet == {DhtUrl, RealUrl, OtherUrl, MarkedUrl}

MaxTrackers == 2

Entry(url) == <<"{", QT, "url", QT, ":", WS, QT>> \o url \o <<QT, "}">>

RECURSIVE DumpEntries(_)
DumpEntries(urls) ==
    IF urls = <<>> THEN <<>>
    ELSE Entry(Head(urls)) \o (IF Len(urls) > 1 THEN <<",", WS>> ELSE <<>>)
         \o DumpEntries(Tail(urls))

\* the JSON text of a tracker list with the given urls
TrackerListText(urls) == <<"[">> \o DumpEntries(urls) \o <<"]">>

UrlLists == UNION {[1..n -> TrackerUrlSet] : n \in 0..MaxTrackers}

TrackerTexts ==
    {TrackerListText(l) : l \in UrlLists} \cup
    { <<"[", "]">>,
      <<"[">> \o Entry(DhtUrl) \o <<",", WS>> \o Entry(RealUrl) \o <<"]">>,
      <<"[">> \o Entry(RealUrl) \o <<",">> \o Entry(DhtUrl) \o <<",">>
              \o Entry(OtherUrl) \o <<"]">>,
      <<"[">> \o Entry(DhtUrl) \o <<"]">>,
      <<"[", "{", QT, "msg", QT, ":", QT, QT, "}", "]">>,
      <<"Forbidden">> }

\* the response bodies the service may answer an operation's action with
Bodies(o) ==
    CASE o = "get_torrent_trackers_urls" -> TrackerTexts
      [] o = "get_application_version_api" -> {<<WS, "v5.0.1", WS>>}
      [] o = "get_torrent_list_api" -> {<<"[", "]">>, <<"Forbidden">>}
      [] o = "delete_torrent_api" -> {<<"Forbidden">>, <<"{", "}">>}
      [] OTHER -> {<<"Ok.">>}

\* ----------------------------------------------------------------- results
\* what a call ends with: a returned value or an exception raised to the caller
Return(v) == [raised |-> FALSE, val |-> v]
Raise(e) == [raised |-> TRUE, val |-> <<FExc(e)>>]
\* except Exception as e: return f"Error: {str(e)}"
ErrorResult(e) == Return(<<Lit("Error: "), FExc(e)>>)

LOGIN_FAILED == <<Lit("Login failed, unable to get SID")>>
UNRECOGNIZED == <<Lit("Error: Unrecognized JSON format, please provide required format")>>
NO_PATH == <<Lit("Error: No torrent file path provided")>>

\* the value of `cookies` in an operation: None, or the cookies of the response
NoneCookies == [isNone |-> TRUE, jar |-> {}]
SomeCookies(jar) == [isNone |-> FALSE, jar |-> jar]

\* the status check left out
LoginResult_AnyStatus(resp) == SomeCookies(resp.jar)

\* login_to_qbittorrent: what it returns for a response
LoginResult(resp) ==
    IF resp.status = 200 THEN SomeCookies(resp.jar) ELSE NoneCookies

\* only None taken as false
CookiesTruthy_NotNone(ck) == ~ck.isNone

\* bool(cookies): None and an empty httpx.Cookies are both false
CookiesTruthy(ck) == ~ck.isNone /\ ck.jar /= {}

\* ---------------------------------------------------------- get trackers
\* the marker looked for anywhere in the url
IsSpecial_Contains(url) == \E i \in 1..Len(url) : url[i] = "** ["

\* url.startswith('** [')
IsSpecial(url) == url /= <<>> /\ url[1] = "** ["

RECURSIVE JoinComma(_)
JoinComma(urls) ==
    IF urls = <<>> THEN <<>>
    ELSE IF Len(urls) = 1 THEN <<FStr(urls[1])>>
    ELSE <<FStr(urls[1]), Lit(",")>> \o JoinComma(Tail(urls))

RECURSIVE TrackerUrls(_)
TrackerUrls(entries) ==
    IF entries = <<>> THEN <<>>
    ELSE LET url == GetKey(Head(entries), <<"url">>).v
         IN  (IF IsSpecial(url) THEN <<>> ELSE <<url>>) \o TrackerUrls(Tail(entries))

\* tracker.get('url').startswith raises for this entry
BadEntry(e) ==
    \/ e.t /= "dict"
    \/ ~HasKey(e, <<"url">>)
    \/ GetKey(e, <<"url">>).t /= "str"

TrackersResult(text) ==
    LET p == JsonLoads(text)
    IN  IF ~p.ok THEN ErrorResult("JSONDecodeError")
        ELSE IF ~Truthy(p.val) THEN Return(<<Lit("This torrent has no trackers")>>)
        ELSE IF p.val.t /= "list" THEN ErrorResult("AttributeError")
        ELSE IF \E i \in 1..Len(p.val.v) : BadEntry(p.val.v[i])
             THEN ErrorResult("AttributeError")
        ELSE LET urls == TrackerUrls(p.val.v)
             IN  IF urls = <<>>
                 THEN Return(<<Lit("This torrent has no valid tracker URLs")>>)
                 ELSE Return(JoinComma(urls))

\* ------------------------------------------ single-shot response handling
\* the fixed message for every hashes value that names "all" in any case
DeleteSuccess_AnyCase(hashes) ==
    IF hashes \in {<<"all">>, <<"ALL">>}
    THEN <<Lit("Successfully deleted all torrents")>>
    ELSE <<Lit("Successfully deleted specified torrents: "), FStr(hashes)>>

\* the message of delete_torrent_api for a 200 response
DeleteSuccess(hashes) ==
    IF hashes = HashAll
    THEN <<Lit("Successfully deleted all torrents")>>
    ELSE <<Lit("Successfully deleted specified torrents: "), FStr(hashes)>>

\* the result of a single-shot operation for a 200 response
Success(o, a, text) ==
    CASE o = "delete_torrent_api" -> Return(DeleteSuccess(a.hashes))
      [] o = "pause_torrent_api" ->
            IF a.hashes = HashAll
            THEN Return(<<Lit("Successfully paused all torrents")>>)
            ELSE Return(<<Lit("Successfully paused specified torrents: "), FStr(a.hashes)>>)
      [] o = "resume_torrent_api" ->
            IF a.hashes = HashAll
            THEN Return(<<Lit("Successfully resumed all torrents")>>)
            ELSE Return(<<Lit("Successfully resumed specified torrents: "), FStr(a.hashes)>>)
      [] o = "get_torrent_trackers_urls" -> TrackersResult(text)
      [] o \in {"set_global_download_limit_api", "set_global_upload_limit_api"} ->
            Return(<<Lit("Successfully set speed limit: "), FInt(a.limit)>>)
      [] o = "get_application_version_api" -> Return(<<FStr(Strip(text))>>)
      [] o = "set_file_priority_api" ->
            Return(<<Lit("Successfully set file priority: "), FStr(a.hash), Lit(":"),
                     FStr(a.id), Lit(":"), FInt(a.priority)>>)
      [] o = "set_torrent_download_limit_api" ->
            Return(<<Lit("Successfully set torrent download speed limit: "),
                     FStr(a.hash), Lit(":"), FInt(a.limit)>>)
      [] o = "set_torrent_upload_limit_api" ->
            Return(<<Lit("Successfully set torrent upload speed limit: "),
                     FStr(a.hash), Lit(":"), FInt(a.limit)>>)
      [] o = "add_trackers_to_torrent_api" ->
            Return(<<Lit("Successfully added trackers: "), FStr(a.hash), Lit(":"),
                     FStr(a.trackers)>>)
      [] o = "add_torrent_tags_api" ->
            Return(<<Lit("Successfully added torrent tags: "), FStr(a.hash), Lit(":"),
                     FStr(a.tags)>>)
      [] o = "get_torrent_list_api" ->
            LET p == JsonLoads(text)
            IN  IF p.ok THEN Return(<<[k |-> "json", v |-> p.val]>>)
                ELSE ErrorResult("JSONDecodeError")

FailurePrefix(o) ==
    CASE o = "pause_torrent_api" -> "Failed to pause torrent: status code "
      [] o = "resume_torrent_api" -> "Failed to resume torrent: status code "
      [] o = "get_torrent_trackers_urls" -> "Failed to get torrent trackers: status code "
      [] o \in {"set_global_download_limit_api", "set_global_upload_limit_api"} ->
            "Failed to set speed limit: status code "
      [] o = "get_application_version_api" ->
            "Failed to get qBittorrent version: status code "
      [] o = "set_file_priority_api" -> "Failed to set file priority: status code "
      [] o = "set_torrent_download_limit_api" ->
            "Failed to set torrent download speed limit: status code "
      [] o = "set_torrent_upload_limit_api" ->
            "Failed to set torrent upload speed limit: status code "
      [] o = "add_trackers_to_torrent_api" -> "Failed to add trackers: status code "
      [] o = "add_torrent_tags_api" -> "Failed to add torrent tags: status code "
      [] o = "get_torrent_list_api" -> "Failed to get torrent list: status code "

\* the result of a single-shot operation for a response that is not 200
Failure(o, status, text) ==
    IF o = "delete_torrent_api"
    THEN LET p == JsonLoads(text)
         IN  Return(<<Lit("Failed to delete torrent, HTTP status code: "), FInt(status),
                      Lit(", response body: "),
                      IF p.ok THEN [k |-> "json", v |-> p.val] ELSE FStr(text)>>)
    ELSE Return(<<Lit(FailurePrefix(o)), FInt(status)>>)

OnResponse(o, a, resp) ==
    IF resp.status = 200 THEN Success(o, a, resp.text)
    ELSE Failure(o, resp.status, resp.text)

\* -------------------------------------------------------------- add torrent
\* the literal path taken for every value that is not a list or an object
\* with file_paths
Classify_FallbackLiteral(query) ==
    LET p == JsonLoads(query)
        lit == [kind |-> "literal", file_paths |-> PyList(<<PyStr(Strip(query))>>)]
    IN  IF ~p.ok THEN lit
        ELSE IF p.val.t = "list" THEN [kind |-> "array", file_paths |-> p.val]
        ELSE IF p.val.t = "dict" /\ HasKey(p.val, <<"file_paths">>)
             THEN [kind |-> "object", file_paths |-> GetKey(p.val, <<"file_paths">>)]
        ELSE lit

\* the outcome of the input classification of add_torrent_api
Classify(query) ==
    LET p == JsonLoads(query)
    IN  IF ~p.ok THEN [kind |-> "literal", file_paths |-> PyList(<<PyStr(Strip(query))>>)]
        ELSE IF p.val.t = "list" THEN [kind |-> "array", file_paths |-> p.val]
        ELSE IF p.val.t = "dict" /\ HasKey(p.val, <<"file_paths">>)
             THEN [kind |-> "object", file_paths |-> GetKey(p.val, <<"file_paths">>)]
        ELSE [kind |-> "unrecognized", file_paths |-> PyNull]

\* for file_path in file_paths can run: a number or a boolean raises TypeError
\* (a string would give its characters and an object its keys: neither is
\* among the modelled inputs)
Iterable(v) == v.t = "list"

\* the result lines of one file
LineMissing(path) == <<Lit("File does not exist: "), FStr(path)>>
LineUnreadable(path) ==
    <<Lit("Error reading file "), FStr(path), Lit(": "), FExc("PermissionError")>>
\* the status code left out of the failure line
LineUploaded_NoStatus(file_name, status) ==
    IF status = 200 THEN <<Lit("Successfully added torrent file: "), FStr(file_name)>>
    ELSE IF status = 415 THEN <<Lit("Invalid torrent file: "), FStr(file_name)>>
    ELSE <<Lit("Failed to add torrent file "), FStr(file_name)>>

LineUploaded(file_name, status) ==
    IF status = 200 THEN <<Lit("Successfully added torrent file: "), FStr(file_name)>>
    ELSE IF status = 415 THEN <<Lit("Invalid torrent file: "), FStr(file_name)>>
    ELSE <<Lit("Failed to add torrent file "), FStr(file_name),
           Lit(": status code "), FInt(status)>>

\* no line for a missing file
RECURSIVE Advance_NoMissingLine(_, _, _)
Advance_NoMissingLine(items, i, results) ==
    IF i > Len(items) THEN [stop |-> "end", idx |-> i, results |-> results]
    ELSE IF items[i].t /= "str" THEN [stop |-> "raise", idx |-> i, results |-> results]
    ELSE IF ~PathExists(items[i].v)
         THEN Advance_NoMissingLine(items, i + 1, results)
    ELSE IF ~Readable(items[i].v)
         THEN Advance_NoMissingLine(items, i + 1,
                                    Append(results, LineUnreadable(items[i].v)))
    ELSE [stop |-> "upload", idx |-> i, results |-> results]

\* the loop left at the first missing or unreadable file
RECURSIVE Advance_Break(_, _, _)
Advance_Break(items, i, results) ==
    IF i > Len(items) THEN [stop |-> "end", idx |-> i, results |-> results]
    ELSE IF items[i].t /= "str" THEN [stop |-> "raise", idx |-> i, results |-> results]
    ELSE IF ~PathExists(items[i].v)
         THEN [stop |-> "end", idx |-> i + 1,
               results |-> Append(results, LineMissing(items[i].v))]
    ELSE IF ~Readable(items[i].v)
         THEN [stop |-> "end", idx |-> i + 1,
               results |-> Append(results, LineUnreadable(items[i].v))]
    ELSE [stop |-> "upload", idx |-> i, results |-> results]

\* the loop over file_paths from position i up to the next upload, the end of
\* the list, or an exception: os.path.exists raises TypeError for None (a
\* number would be taken as a file descriptor: not among the modelled inputs)
RECURSIVE Advance(_, _, _)
Advance(items, i, results) ==
    IF i > Len(items) THEN [stop |-> "end", idx |-> i, results |-> results]
    ELSE IF items[i].t /= "str" THEN [stop |-> "raise", idx |-> i, results |-> results]
    ELSE IF ~PathExists(items[i].v)
         THEN Advance(items, i + 1, Append(results, LineMissing(items[i].v)))
    ELSE IF ~Readable(items[i].v)
         THEN Advance(items, i + 1, Append(results, LineUnreadable(items[i].v)))
    ELSE [stop |-> "upload", idx |-> i, results |-> results]

\* ------------------------------------------------------------------- state
Calls == 1..NumCalls

\* call[c]: the frame of call c: its position, its arguments and locals, the
\* requests it issued (sent), what the transport answered (recv, aligned with
\* sent), the transport clients it holds open, and the lines it appended to
\* qbittorrent_debug.log
VARIABLES call
vars == <<call>>

Idle ==
    [pc |-> "idle", op |-> "none", args |-> [none |-> TRUE],
     host |-> EmptyStr, username |-> EmptyStr, password |-> EmptyStr,
     cookies |-> NoneCookies, file_paths |-> <<>>, idx |-> 0, file_name |-> <<>>,
     results |-> <<>>, ret |-> Return(<<>>),
     sent |-> <<>>, recv |-> <<>>, clients |-> {}, debug_log |-> <<>>]

Init == call = [c \in Calls |-> Idle]

HasScheme(host) == host /= <<>> /\ host[1] \in {"http://", "https://"}

LoginRequest(f) ==
    [kind |-> "login", method |-> "POST", host |-> f.host, path |-> LOGIN_PATH,
     cookies |-> NoneCookies,
     data |-> [username |-> f.username, password |-> f.password]]

\* the cookies left out of the request
ActionRequest_NoCookies(f) ==
    [kind |-> "action", method |-> Endpoint(f.op).method, host |-> f.host,
     path |-> Endpoint(f.op).path, cookies |-> NoneCookies, data |-> f.args]

ActionRequest(f) ==
    [kind |-> "action", method |-> Endpoint(f.op).method, host |-> f.host,
     path |-> Endpoint(f.op).path, cookies |-> f.cookies, data |-> f.args]

UploadRequest(f, path) ==
    [kind |-> "action", method |-> "POST", host |-> f.host, path |-> ADD_PATH,
     cookies |-> f.cookies,
     data |-> [torrents |-> [file_name |-> Basename(path), content |-> path]]]

\* the clients left open when the call ends
Finish_NoClose(f, r) == [f EXCEPT !.pc = "done", !.ret = r]

\* the call ends: every client scope has been left
Finish(f, r) == [f EXCEPT !.pc = "done", !.ret = r, !.clients = {}]

\* add_torrent_api from position i of the loop on
AddContinue(f, i, results) ==
    LET r == Advance(f.file_paths, i, results)
    IN  CASE r.stop = "upload" ->
               [f EXCEPT !.pc = "action", !.idx = r.idx, !.results = r.results,
                         !.file_name = Basename(f.file_paths[r.idx].v),
                         !.sent = Append(@, UploadRequest(f, f.file_paths[r.idx].v)),
                         !.clients = @ \cup {"action"}]
          [] r.stop = "end" ->
               Finish([f EXCEPT !.idx = r.idx, !.results = r.results],
                      Return(JoinLines(r.results)))
          [] r.stop = "raise" ->
               Finish([f EXCEPT !.idx = r.idx, !.results = r.results],
                      ErrorResult("TypeError"))

\* the return for an unrecognized value left out: file_paths is unbound
AddStart_NoReject(f) ==
    LET cl == Classify(f.args.query)
    IN  IF cl.kind = "unrecognized" THEN Finish(f, ErrorResult("UnboundLocalError"))
        ELSE IF ~Truthy(cl.file_paths) THEN Finish(f, Return(NO_PATH))
        ELSE IF ~Iterable(cl.file_paths) THEN Finish(f, ErrorResult("TypeError"))
        ELSE AddContinue([f EXCEPT !.file_paths = cl.file_paths.v], 1, <<>>)

\* add_torrent_api after a login that gave cookies
AddStart(f) ==
    LET cl == Classify(f.args.query)
    IN  IF cl.kind = "unrecognized" THEN Finish(f, Return(UNRECOGNIZED))
        ELSE IF ~Truthy(cl.file_paths) THEN Finish(f, Return(NO_PATH))
        ELSE IF ~Iterable(cl.file_paths) THEN Finish(f, ErrorResult("TypeError"))
        ELSE AddContinue([f EXCEPT !.file_paths = cl.file_paths.v], 1, <<>>)

\* the action request sent twice
AfterLogin_DoubleSend(f) ==
    IF ~CookiesTruthy(f.cookies) THEN Finish(f, Return(LOGIN_FAILED))
    ELSE IF f.op = "add_torrent_api" THEN AddStart(f)
    ELSE [f EXCEPT !.pc = "action",
                   !.sent = Append(Append(@, ActionRequest(f)), ActionRequest(f)),
                   !.clients = @ \cup {"action"}]

\* an operation from the return of login_to_qbittorrent on
AfterLogin(f) ==
    IF ~CookiesTruthy(f.cookies) THEN Finish(f, Return(LOGIN_FAILED))
    ELSE IF f.op = "add_torrent_api" THEN AddStart(f)
    ELSE [f EXCEPT !.pc = "action", !.sent = Append(@, ActionRequest(f)),
                   !.clients = @ \cup {"action"}]

\* the operation o is called: add_torrent_api first appends its query to the
\* debug log; the operation then opens a client and sends the login request
Begin(o, a, cfg) ==
    LET f == [Idle EXCEPT !.op = o, !.args = a, !.host = cfg.host,
                          !.username = cfg.username, !.password = cfg.password,
                          !.debug_log = IF o = "add_torrent_api"
                                        THEN <<<<Lit("Received query: "), FStr(a.query)>>>>
                                        ELSE <<>>]
    IN  [f EXCEPT !.pc = "login", !.sent = <<LoginRequest(f)>>, !.clients = {"login"}]

\* the harness awaits each call before it makes the next one
Sequential(c) == \A d \in Calls \ {c} : call[d].pc = "idle"

\* ----------------------------------------------------------------- actions
\* an operation of api.py is called with the process configuration
CallApi(c) ==
    /\ call[c].pc = "idle"
    /\ Sequential(c)
    /\ \E o \in ApiOps : \E a \in OpArgs(o) :
          call' = [call EXCEPT ![c] = Begin(o, a, DefaultConfig)]

\* ------------------------------------------------------ the tools (main.py)
Tools ==
    {"add_torrent", "delete_torrent", "pause_torrent", "resume_torrent",
     "get_torrent_trackers", "set_global_download_limit", "set_global_upload_limit",
     "get_application_version", "set_file_priority", "set_torrent_download_limit",
     "set_torrent_upload_limit", "add_trackers_to_torrent", "add_torrent_tags",
     "get_torrent_list"}

\* the operation a tool awaits
ToolOp(t) ==
    CASE t = "get_torrent_trackers" -> "get_torrent_trackers_urls"
      [] OTHER -> CHOOSE o \in ApiOps : o = t \o "_api"

\* the host, username and password a tool passes to its operation: three tools
\* pass none, and the operation takes its defaults
ToolConfig(t) ==
    IF t \in {"set_global_download_limit", "set_global_upload_limit",
              "get_application_version"}
    THEN NoConfig
    ELSE DefaultConfig

\* a tool of main.py is called
CallTool(c) ==
    /\ call[c].pc = "idle"
    /\ Sequential(c)
    /\ \E t \in Tools : \E a \in OpArgs(ToolOp(t)) :
          call' = [call EXCEPT ![c] = Begin(ToolOp(t), a, ToolConfig(t))]

\* the cookies of a login kept in one place for all calls: a call takes the
\* token another call holds
LoginResponse_SharedSession(c) ==
    /\ call[c].pc = "login"
    /\ HasScheme(call[c].host)
    /\ \E st \in Statuses, jar \in Jars :
          LET resp == [kind |-> "response", status |-> st, jar |-> jar, text |-> <<"Ok.">>]
              held == {d \in Calls \ {c} : CookiesTruthy(call[d].cookies)}
              f == [call[c] EXCEPT !.recv = Append(@, resp), !.clients = {},
                                   !.cookies = IF held /= {}
                                               THEN call[CHOOSE d \in held : TRUE].cookies
                                               ELSE LoginResult(resp)]
          IN  call' = [call EXCEPT ![c] = AfterLogin(f)]

\* the service answers the login request
LoginResponse(c) ==
    /\ call[c].pc = "login"
    /\ HasScheme(call[c].host)
    /\ \E st \in Statuses, jar \in Jars :
          LET resp == [kind |-> "response", status |-> st, jar |-> jar, text |-> <<"Ok.">>]
              f == [call[c] EXCEPT !.recv = Append(@, resp), !.clients = {},
                                   !.cookies = LoginResult(resp)]
          IN  call' = [call EXCEPT ![c] = AfterLogin(f)]

ErrorsOf(f) == IF HasScheme(f.host) THEN TransportErrors ELSE {"UnsupportedProtocol"}

\* the login request fails in the transport: login_to_qbittorrent is awaited
\* outside the try block of the operation, the exception reaches the caller
LoginError(c) ==
    /\ call[c].pc = "login"
    /\ \E e \in ErrorsOf(call[c]) :
          LET f == [call[c] EXCEPT !.recv = Append(@, [kind |-> "error", e |-> e])]
          IN  call' = [call EXCEPT ![c] = Finish(f, Raise(e))]

\* the service answers the action request
ActionResponse(c) ==
    /\ call[c].pc = "action"
    /\ \E st \in Statuses, text \in Bodies(call[c].op) :
          LET resp == [kind |-> "response", status |-> st, jar |-> {}, text |-> text]
              f == [call[c] EXCEPT !.recv = Append(@, resp)]
          IN  call' = [call EXCEPT ![c] =
                 IF f.op = "add_torrent_api"
                 THEN AddContinue(f, f.idx + 1,
                                  Append(f.results, LineUploaded(f.file_name, st)))
                 ELSE Finish(f, OnResponse(f.op, f.args, resp))]

\* the action request fails in the transport: caught by except Exception
ActionError(c) ==
    /\ call[c].pc = "action"
    /\ \E e \in TransportErrors :
          LET f == [call[c] EXCEPT !.recv = Append(@, [kind |-> "error", e |-> e])]
          IN  call' = [call EXCEPT ![c] = Finish(f, ErrorResult(e))]

\* the caller takes the outcome of the call
Collect(c) ==
    /\ call[c].pc = "done"
    /\ call' = [call EXCEPT ![c] = Idle]

Next ==
    \E c \in Calls :
        \/ CallApi(c)
        \/ CallTool(c)
        \/ LoginResponse(c)
        \/ LoginError(c)
        \/ ActionResponse(c)
        \/ ActionError(c)
        \/ Collect(c)

Spec == Init /\ [][Next]_vars

\* ------------------------------------------------------- concurrent calls
\* the tools the harness calls while other calls are in flight
ConcurrentTools == {"pause_torrent", "resume_torrent"}

\* a tool is called, whatever the other calls are doing
CallConcurrent(c) ==
    /\ call[c].pc = "idle"
    /\ \E t \in ConcurrentTools : \E a \in OpArgs(ToolOp(t)) :
          call' = [call EXCEPT ![c] = Begin(ToolOp(t), a, ToolConfig(t))]

\* the calls interleave at their awaits: a call runs from one await to the next
NextConc ==
    \E c \in Calls :
        \/ CallConcurrent(c)
        \/ LoginResponse(c)
        \/ LoginError(c)
        \/ ActionResponse(c)
        \/ ActionError(c)
        \/ Collect(c)

SpecConc == Init /\ [][NextConc]_vars

\* ============================================================== properties
\* the login request of the frame was answered with an HTTP response
LoginAnswered(f) == Len(f.recv) >= 1 /\ f.recv[1].kind = "response"
\* the login of the frame gave a session token
GotToken(f) == LoginAnswered(f) /\ f.recv[1].status = 200 /\ f.recv[1].jar /= {}
\* the action requests among the requests of the frame
ActionsSent(f) == SelectSeq(f.sent, LAMBDA r : r.kind = "action")
\* some request of the frame failed in the transport
TransportFailed(f) == \E i \in 1..Len(f.recv) : f.recv[i].kind = "error"
\* the message carries the number n
Carries(msg, n) == \E i \in 1..Len(msg) : msg[i].k = "int" /\ msg[i].n = n

\* C1: for every operation, a login response with a status other than 200
\* ends the call with exactly "Login failed, unable to get SID" and the login
\* request is the only request the call has sent.
C1_LoginFailedNoFurtherRequest ==
    \A c \in Calls :
        LET f == call[c]
        IN  (LoginAnswered(f) /\ f.recv[1].status /= 200)
            => /\ f.pc = "done"
               /\ f.ret = Return(LOGIN_FAILED)
               /\ Len(f.sent) = 1
               /\ f.sent[1].kind = "login"

C1_Witness ==
    \E c \in Calls :
        /\ call[c].op = "add_torrent_tags_api"
        /\ LoginAnswered(call[c])
        /\ call[c].recv[1].status = 403
        /\ call[c].recv[1].jar /= {}
        /\ call[c].pc = "done"

\* C2: for every operation, a transport-level failure of any request of the
\* call, the login request included, ends the call with a returned error
\* value: no exception reaches the caller.
C2_NoExceptionEscapes ==
    \A c \in Calls :
        LET f == call[c]
        IN  (f.pc = "done" /\ TransportFailed(f))
            => /\ ~f.ret.raised
               /\ f.ret.val /= <<>>
               /\ f.ret.val[1] = Lit("Error: ")

\* C3: no action request is sent before the same call has received a 200
\* login response, every action request carries the cookies of that login
\* response, and a call without a token has sent its one login request only.
C3_TokenBeforeAction ==
    \A c \in Calls :
        LET f == call[c]
        IN  /\ \A i \in 1..Len(f.sent) :
                  /\ f.sent[i].kind = "login" <=> i = 1
                  /\ f.sent[i].kind = "action"
                     => /\ LoginAnswered(f)
                        /\ f.recv[1].status = 200
                        /\ f.sent[i].cookies = SomeCookies(f.recv[1].jar)
                        /\ f.sent[i].cookies.jar /= {}
            /\ (Len(f.recv) >= 1 /\ ~GotToken(f))
               => f.pc = "done" /\ Len(f.sent) = 1

C3_Witness ==
    \E c \in Calls :
        /\ call[c].op = "add_torrent_api"
        /\ Len(call[c].sent) = 3
        /\ call[c].sent[3].kind = "action"
        /\ call[c].sent[3].cookies.jar = {[name |-> "SID", value |-> "sidB"]}

\* C4 (as claimed): "Login failed, unable to get SID" is returned only for a
\* login status other than 200; after a 200 login response the operation holds
\* a session token and goes on to send its action request.
C4_Original ==
    \A c \in Calls :
        LET f == call[c]
        IN  /\ (f.pc = "done" /\ f.ret = Return(LOGIN_FAILED))
               => (LoginAnswered(f) /\ f.recv[1].status /= 200)
            /\ (LoginAnswered(f) /\ f.recv[1].status = 200)
               => /\ CookiesTruthy(f.cookies)
                  /\ (f.op \in SingleShotOps \/ f.args.query \in {PathA, PathD})
                     => Len(ActionsSent(f)) >= 1

\* C4 (amended): "Login failed, unable to get SID" is returned exactly when the
\* login response has a status other than 200 or carries no cookie. After a 200
\* login response that carries a cookie the operation holds these cookies as
\* its token, a single-shot operation goes on to send its action request, and
\* add torrent goes on to classify its input (it uploads when the input gives
\* a path that exists and is readable).
C4_LoginFailedIffNoToken ==
    \A c \in Calls :
        LET f == call[c]
        IN  /\ (f.pc = "done" /\ f.ret = Return(LOGIN_FAILED))
               <=> (LoginAnswered(f) /\ (f.recv[1].status /= 200 \/ f.recv[1].jar = {}))
            /\ (LoginAnswered(f) /\ f.recv[1].status = 200 /\ f.recv[1].jar /= {})
               => /\ f.cookies = SomeCookies(f.recv[1].jar)
                  /\ f.op \in SingleShotOps => Len(ActionsSent(f)) = 1
                  /\ (f.op = "add_torrent_api" /\ f.args.query \in {PathA, PathD})
                     => Len(ActionsSent(f)) = 1

\* a 200 login response without a cookie ended the call with the login-failed
\* result
C4_Witness ==
    \E c \in Calls :
        /\ call[c].op = "get_application_version_api"
        /\ LoginAnswered(call[c])
        /\ call[c].recv[1].status = 200
        /\ call[c].recv[1].jar = {}
        /\ call[c].pc = "done"
        /\ call[c].ret = Return(LOGIN_FAILED)

\* ------------------------------------------------ add torrent, per position
\* the argument of add torrent gives a non-empty list of path strings
PathListInput(f) ==
    /\ f.op = "add_torrent_api"
    /\ LET cl == Classify(f.args.query)
       IN  /\ cl.kind /= "unrecognized"
           /\ cl.file_paths.t = "list"
           /\ cl.file_paths.v /= <<>>
           /\ \A i \in 1..Len(cl.file_paths.v) : cl.file_paths.v[i].t = "str"

\* the paths of such an input
InputPaths(f) ==
    LET l == Classify(f.args.query).file_paths.v IN [i \in 1..Len(l) |-> l[i].v]

Uploadable(path) == PathExists(path) /\ Readable(path)

\* the positions of the paths that are uploaded, in input order
UploadPositions(paths) ==
    SelectSeq([i \in 1..Len(paths) |-> i], LAMBDA i : Uploadable(paths[i]))

\* the number of uploadable paths before position i
UploadsBefore(paths, i) == Cardinality({j \in 1..(i - 1) : Uploadable(paths[j])})

\* the lines of a returned message
RECURSIVE SplitLines(_, _)
SplitLines(msg, cur) ==
    IF msg = <<>> THEN <<cur>>
    ELSE IF Head(msg) = NL THEN <<cur>> \o SplitLines(Tail(msg), <<>>)
    ELSE SplitLines(Tail(msg), Append(cur, Head(msg)))

ResultLines(f) == SplitLines(f.ret.val, <<>>)

\* C5 (as claimed): when login succeeds and an action request is answered with
\* a status other than 200, the returned failure result carries that status
\* code; for add torrent the line reported for that file carries it.
C5_Original ==
    \A c \in Calls :
        LET f == call[c]
        IN  (f.pc = "done" /\ GotToken(f) /\ ~TransportFailed(f))
            => /\ (f.op \in SingleShotOps /\ f.recv[2].status /= 200)
                  => Carries(f.ret.val, f.recv[2].status)
               /\ PathListInput(f)
                  => LET ps == InputPaths(f)
                         up == UploadPositions(ps)
                     IN  \A k \in 1..Len(up) :
                            f.recv[k + 1].status /= 200
                            => Carries(ResultLines(f)[up[k]], f.recv[k + 1].status)

\* C5 (amended): as claimed for every single-shot operation and every non-200
\* status; for add torrent the line of the file carries the status code for
\* every status other than 200 and 415, and a 415 is reported as
\* "Invalid torrent file: <name>" without the code.
C5_FailureCarriesStatus ==
    \A c \in Calls :
        LET f == call[c]
        IN  (f.pc = "done" /\ GotToken(f) /\ ~TransportFailed(f))
            => /\ (f.op \in SingleShotOps /\ f.recv[2].status /= 200)
                  => Carries(f.ret.val, f.recv[2].status)
               /\ PathListInput(f)
                  => LET ps == InputPaths(f)
                         up == UploadPositions(ps)
                     IN  \A k \in 1..Len(up) :
                            LET st == f.recv[k + 1].status
                                line == ResultLines(f)[up[k]]
                            IN  /\ st \notin {200, 415} => Carries(line, st)
                                /\ st = 415
                                   => line = <<Lit("Invalid torrent file: "),
                                               FStr(Basename(ps[up[k]]))>>

\* the second of two uploads was answered 500 after the first was answered 415
C5_Witness ==
    \E c \in Calls :
        /\ call[c].pc = "done"
        /\ call[c].op = "add_torrent_api"
        /\ call[c].args.query = ArrayText(<<PathD, PathA>>)
        /\ Len(call[c].recv) = 3
        /\ call[c].recv[2].kind = "response" /\ call[c].recv[2].status = 415
        /\ call[c].recv[3].kind = "response" /\ call[c].recv[3].status = 500

\* C6 (as claimed): in add torrent with a list of paths every position i is
\* examined, uploaded when the path exists and is readable, and has its own
\* entry in the result, whatever happened to the files before it: a missing
\* file, an unreadable file, a non-200 answer, or a transport failure.
C6_Original ==
    \A c \in Calls :
        LET f == call[c]
        IN  (f.pc = "done" /\ GotToken(f) /\ PathListInput(f))
            => LET ps == InputPaths(f)
               IN  /\ ~f.ret.raised
                   /\ Len(ResultLines(f)) = Len(ps)
                   /\ Len(ActionsSent(f)) = Len(UploadPositions(ps))

\* C6 (amended): a missing file, an unreadable file or an upload answered
\* with a non-200 status does not abort the remaining files: when no upload
\* fails at transport level every position is examined, every uploadable path
\* is uploaded and every position has its own entry in the result. An upload
\* that fails at transport level aborts the batch: no further path is
\* examined or uploaded and the call returns the single result "Error: ...",
\* without the entries collected so far.
C6_FailureDoesNotAbort ==
    \A c \in Calls :
        LET f == call[c]
        IN  (f.pc = "done" /\ GotToken(f) /\ PathListInput(f))
            => LET ps == InputPaths(f)
                   up == UploadPositions(ps)
               IN  /\ ~f.ret.raised
                   /\ ~TransportFailed(f)
                      => /\ f.idx = Len(ps) + 1
                         /\ Len(ResultLines(f)) = Len(ps)
                         /\ Len(ActionsSent(f)) = Len(up)
                         /\ \A k \in 1..Len(up) :
                               ActionsSent(f)[k].data.torrents.content = ps[up[k]]
                   /\ TransportFailed(f)
                      => /\ f.recv[Len(f.recv)].kind = "error"
                         /\ Len(f.sent) = Len(f.recv)
                         /\ Len(ActionsSent(f)) <= Len(up)
                         /\ f.idx = up[Len(ActionsSent(f))]
                         /\ f.ret = ErrorResult(f.recv[Len(f.recv)].e)

\* an unreadable file, then an upload answered 500, then a second upload
C6_Witness ==
    \E c \in Calls :
        /\ call[c].pc = "done"
        /\ call[c].op = "add_torrent_api"
        /\ GotToken(call[c])
        /\ call[c].args.query \in {ArrayText(<<PathB, PathA>>), ArrayText(<<PathC, PathD>>)}
        /\ Len(call[c].recv) = 2
        /\ call[c].recv[2].kind = "response"
        /\ call[c].recv[2].status = 500
        /\ Len(call[c].results) = 2

\* C7 (as claimed): add torrent with valid JSON that is neither an array nor
\* an object with a file_paths field returns a descriptive error result and
\* sends no HTTP request at all during the call.
C7_Original ==
    \A c \in Calls :
        LET f == call[c]
        IN  (f.op = "add_torrent_api" /\ Classify(f.args.query).kind = "unrecognized")
            => /\ f.sent = <<>>
               /\ f.pc = "done" => f.ret = Return(UNRECOGNIZED)

\* C7 (amended): such a call sends the login request before it looks at its
\* input; when the login gives a token it returns the "Unrecognized JSON
\* format" error result and sends no upload, so the login request is the only
\* HTTP request of the call.
C7_UnrecognizedSendsOnlyLogin ==
    \A c \in Calls :
        LET f == call[c]
        IN  (f.op = "add_torrent_api" /\ JsonLoads(f.args.query).ok
             /\ JsonLoads(f.args.query).val.t /= "list"
             /\ ~(JsonLoads(f.args.query).val.t = "dict"
                  /\ HasKey(JsonLoads(f.args.query).val, <<"file_paths">>)))
            => /\ Len(f.sent) = 1
               /\ f.sent[1].kind = "login"
               /\ f.sent[1].path = LOGIN_PATH
               /\ GotToken(f) => (f.pc = "done" /\ f.ret = Return(UNRECOGNIZED))

C7_Witness ==
    \E c \in Calls :
        /\ call[c].op = "add_torrent_api"
        /\ call[c].args.query = ObjectText("x", <<PathA>>)
        /\ GotToken(call[c])
        /\ call[c].pc = "done"
        /\ call[c].ret = Return(UNRECOGNIZED)

\* the argument of add torrent gives a list of path strings, possibly empty
ListInput(f) ==
    /\ f.op = "add_torrent_api"
    /\ LET cl == Classify(f.args.query)
       IN  /\ cl.kind /= "unrecognized"
           /\ cl.file_paths.t = "list"
           /\ \A i \in 1..Len(cl.file_paths.v) : cl.file_paths.v[i].t = "str"

\* the line the claim expects at position i: by the state of the file and, for
\* an uploaded file, by the status that answered its upload
ExpectedLine(f, ps, i) ==
    IF ~PathExists(ps[i]) THEN <<Lit("File does not exist: "), FStr(ps[i])>>
    ELSE IF ~Readable(ps[i])
         THEN <<Lit("Error reading file "), FStr(ps[i]), Lit(": "), FExc("PermissionError")>>
    ELSE LET st == f.recv[UploadsBefore(ps, i) + 2].status
             name == <<ps[i][Len(ps[i])]>>
         IN  CASE st = 200 -> <<Lit("Successfully added torrent file: "), FStr(name)>>
               [] st = 415 -> <<Lit("Invalid torrent file: "), FStr(name)>>
               [] OTHER -> <<Lit("Failed to add torrent file "), FStr(name),
                             Lit(": status code "), FInt(st)>>

\* one login, one upload per uploadable path in input order, one line per path
OneUploadAndLinePerPath(f) ==
    LET ps == InputPaths(f)
        up == UploadPositions(ps)
    IN  /\ Len(SelectSeq(f.sent, LAMBDA r : r.kind = "login")) = 1
        /\ Len(ActionsSent(f)) = Len(up)
        /\ \A k \in 1..Len(up) :
              /\ ActionsSent(f)[k].method = "POST"
              /\ ActionsSent(f)[k].path = "/api/v2/torrents/add"
              /\ ActionsSent(f)[k].data.torrents.content = ps[up[k]]
        /\ f.ret = Return(JoinLines([i \in 1..Len(ps) |-> ExpectedLine(f, ps, i)]))

\* C8 (as claimed): add torrent with a list of n paths, a successful login and
\* every upload answered performs one login, one upload per path that exists
\* and is readable, and returns n result lines in input order, line i for
\* path i.
C8_Original ==
    \A c \in Calls :
        LET f == call[c]
        IN  (f.pc = "done" /\ GotToken(f) /\ ListInput(f) /\ ~TransportFailed(f))
            => OneUploadAndLinePerPath(f)

\* C8 (amended): as claimed for n >= 1; for the empty list (n = 0) the call
\* sends no upload and returns the one line "Error: No torrent file path
\* provided".
C8_OneLinePerPath ==
    \A c \in Calls :
        LET f == call[c]
        IN  (f.pc = "done" /\ GotToken(f) /\ ListInput(f) /\ ~TransportFailed(f))
            => IF InputPaths(f) = <<>>
               THEN Len(f.sent) = 1 /\ f.ret = Return(NO_PATH)
               ELSE OneUploadAndLinePerPath(f)

\* the list of a.torrent (uploaded) and b.torrent (missing) has been processed
C8_Witness ==
    \E c \in Calls :
        /\ call[c].pc = "done"
        /\ call[c].op = "add_torrent_api"
        /\ call[c].args.query = ArrayText(<<PathA, PathB>>)
        /\ GotToken(call[c])
        /\ Len(call[c].recv) = 2
        /\ call[c].recv[2].kind = "response"
        /\ call[c].recv[2].status = 200
        /\ Len(ResultLines(call[c])) = 2

\* C9: add torrent classifies its input into exactly one of four outcomes: a
\* JSON array is the path list; the file_paths field of a JSON object is the
\* path list; a string that fails JSON parsing is one literal path, stripped
\* (one "File does not exist" line when it is missing); any other JSON value
\* gives the "Unrecognized JSON format" error and no upload. The literal path
\* is taken only when parsing fails.
C9_InputClassification ==
    \A c \in Calls :
        LET f == call[c]
            q == f.args.query
            p == JsonLoads(q)
            literal == <<PyStr(Strip(q))>>
        IN  (f.op = "add_torrent_api" /\ GotToken(f))
            => /\ ~p.ok
                  => /\ f.file_paths = literal
                     /\ ~PathExists(Strip(q))
                        => /\ f.pc = "done"
                           /\ f.ret = Return(<<Lit("File does not exist: "), FStr(Strip(q))>>)
                           /\ Len(f.sent) = 1
               /\ (p.ok /\ p.val.t = "list" /\ p.val.v /= <<>>)
                  => f.file_paths = p.val.v
               /\ (p.ok /\ p.val.t = "dict" /\ HasKey(p.val, <<"file_paths">>)
                        /\ GetKey(p.val, <<"file_paths">>).t = "list"
                        /\ GetKey(p.val, <<"file_paths">>).v /= <<>>)
                  => f.file_paths = GetKey(p.val, <<"file_paths">>).v
               /\ (p.ok /\ p.val.t /= "list"
                        /\ ~(p.val.t = "dict" /\ HasKey(p.val, <<"file_paths">>)))
                  => /\ f.pc = "done"
                     /\ f.ret = Return(UNRECOGNIZED)
                     /\ Len(f.sent) = 1
               /\ p.ok => f.file_paths /= literal
               /\ f.ret = Return(UNRECOGNIZED) => p.ok

\* the input 'not json, not a path' ended as one missing literal path
C9_Witness ==
    \E c \in Calls :
        /\ call[c].op = "add_torrent_api"
        /\ call[c].args.query = <<"not json, not a path">>
        /\ GotToken(call[c])
        /\ call[c].pc = "done"
        /\ Len(call[c].results) = 1

\* method and path of each single-shot operation
EndpointTable ==
    { <<"delete_torrent_api", "POST", "/api/v2/torrents/delete">>,
      <<"pause_torrent_api", "POST", "/api/v2/torrents/stop">>,
      <<"resume_torrent_api", "POST", "/api/v2/torrents/start">>,
      <<"get_torrent_trackers_urls", "GET", "/api/v2/torrents/trackers">>,
      <<"set_global_download_limit_api", "POST", "/api/v2/transfer/setDownloadLimit">>,
      <<"set_global_upload_limit_api", "POST", "/api/v2/transfer/setUploadLimit">>,
      <<"get_application_version_api", "GET", "/api/v2/app/version">>,
      <<"set_file_priority_api", "POST", "/api/v2/torrents/filePrio">>,
      <<"set_torrent_download_limit_api", "POST", "/api/v2/torrents/setDownloadLimit">>,
      <<"set_torrent_upload_limit_api", "POST", "/api/v2/torrents/setUploadLimit">>,
      <<"add_trackers_to_torrent_api", "POST", "/api/v2/torrents/addTrackers">>,
      <<"add_torrent_tags_api", "POST", "/api/v2/torrents/addTags">>,
      <<"get_torrent_list_api", "GET", "/api/v2/torrents/info">> }

\* C10: a single-shot operation whose login gave a token sends exactly one
\* action request, with the method and path of the operation, whatever the
\* answer (200, another status, a transport failure): the call issues two
\* HTTP requests in total.
C10_ExactlyOneActionRequest ==
    \A c \in Calls :
        LET f == call[c]
        IN  (f.op \in SingleShotOps /\ GotToken(f))
            => /\ Len(f.sent) = 2
               /\ f.sent[1].kind = "login"
               /\ f.sent[2].kind = "action"
               /\ <<f.op, f.sent[2].method, f.sent[2].path>> \in EndpointTable
               /\ f.pc \in {"action", "done"}
               /\ f.pc = "done" <=> Len(f.recv) = 2

\* a single-shot call ended by a transport failure of its action request
C10_Witness ==
    \E c \in Calls :
        /\ call[c].op = "get_torrent_trackers_urls"
        /\ GotToken(call[c])
        /\ call[c].pc = "done"
        /\ Len(call[c].recv) = 2
        /\ call[c].recv[2].kind = "error"

\* the urls of a tracker list whose entries are objects with a string url,
\* in response order
ResponseUrls(text) ==
    LET l == JsonLoads(text).val.v
    IN  [i \in 1..Len(l) |-> GetKey(l[i], <<"url">>).v]

\* the response body is a non-empty list of entries that each have a url
HasUrlEntries(text) ==
    LET p == JsonLoads(text)
    IN  /\ p.ok
        /\ p.val.t = "list"
        /\ p.val.v /= <<>>
        /\ \A i \in 1..Len(p.val.v) :
              /\ p.val.v[i].t = "dict"
              /\ HasKey(p.val.v[i], <<"url">>)
              /\ GetKey(p.val.v[i], <<"url">>).t = "str"

\* the url begins with "** ["
HasSpecialPrefix(url) == Len(url) >= 1 /\ url[1] = "** ["

\* the urls a returned message holds, in order
UrlsOf(msg) ==
    LET ps == SelectSeq(msg, LAMBDA m : m.k = "str")
    IN  [i \in 1..Len(ps) |-> ps[i].v]

\* C11: get trackers, on a 200 response with a non-empty list of entries that
\* each have a url, returns the urls of exactly the entries whose url does not
\* begin with "** [", in response order, joined by commas; when every entry
\* has the prefix the result is "This torrent has no valid tracker URLs".
C11_TrackerFilter ==
    \A c \in Calls :
        LET f == call[c]
        IN  (/\ f.op = "get_torrent_trackers_urls"
             /\ f.pc = "done"
             /\ GotToken(f)
             /\ f.recv[2].kind = "response"
             /\ f.recv[2].status = 200
             /\ HasUrlEntries(f.recv[2].text))
            => LET urls == ResponseUrls(f.recv[2].text)
                   kept == SelectSeq(urls, LAMBDA u : ~HasSpecialPrefix(u))
               IN  /\ ~f.ret.raised
                   /\ kept = <<>>
                      => f.ret.val = <<Lit("This torrent has no valid tracker URLs")>>
                   /\ kept /= <<>>
                      => /\ UrlsOf(f.ret.val) = kept
                         /\ Len(f.ret.val) = 2 * Len(kept) - 1
                         /\ \A i \in 1..Len(f.ret.val) :
                               i % 2 = 0 => f.ret.val[i] = Lit(",")

\* a special tracker was dropped and a url that holds the marker further in
\* was kept
C11_Witness ==
    \E c \in Calls :
        /\ call[c].op = "get_torrent_trackers_urls"
        /\ call[c].pc = "done"
        /\ GotToken(call[c])
        /\ call[c].recv[2].kind = "response"
        /\ call[c].recv[2].status = 200
        /\ call[c].recv[2].text = TrackerListText(<<DhtUrl, MarkedUrl>>)
        /\ call[c].ret = Return(<<FStr(MarkedUrl)>>)

\* the success result of pause and resume for the hashes of the call
OwnSuccess(f) ==
    LET verb == IF f.op = "pause_torrent_api" THEN "paused" ELSE "resumed"
    IN  IF f.args.hashes = <<"all">>
        THEN <<Lit("Successfully " \o verb \o " all torrents")>>
        ELSE <<Lit("Successfully " \o verb \o " specified torrents: "), FStr(f.args.hashes)>>

\* C12: calls share no session state, also when they run concurrently: every
\* call performs its own login, under every interleaving each action request
\* carries the token of the login of the same call and never a token only
\* another call obtained, and a call answered 200 returns its own success
\* result.
C12_NoSharedSession ==
    \A c \in Calls :
        LET f == call[c]
        IN  /\ f.pc /= "idle"
               => /\ f.sent[1].kind = "login"
                  /\ \A i \in 2..Len(f.sent) : f.sent[i].kind = "action"
            /\ \A i \in 2..Len(f.sent) :
                  /\ GotToken(f)
                  /\ f.sent[i].cookies.jar = f.recv[1].jar
                  /\ \A d \in Calls \ {c} :
                        (GotToken(call[d]) /\ call[d].recv[1].jar /= f.recv[1].jar)
                        => f.sent[i].cookies.jar /= call[d].recv[1].jar
            /\ (f.pc = "done" /\ Len(f.recv) = 2 /\ f.recv[2].kind = "response"
                /\ f.recv[2].status = 200)
               => f.ret = Return(OwnSuccess(f))

\* a pause and a resume of the same hashes are in flight together, each with
\* the token of its own login
C12_Witness ==
    /\ call[1].op = "pause_torrent_api"
    /\ call[2].op = "resume_torrent_api"
    /\ call[1].args.hashes = call[2].args.hashes
    /\ call[1].pc = "action"
    /\ call[2].pc = "action"
    /\ call[1].sent[2].cookies.jar = {[name |-> "SID", value |-> "sidA"]}
    /\ call[2].sent[2].cookies.jar = {[name |-> "SID", value |-> "sidB"]}

\* C13: delete, on a 200 response, returns "Successfully deleted all
\* torrents" exactly when hashes equals "all", and for every other hashes
\* value the per-hash message that contains the given hashes; the two
\* messages are never equal.
C13_DeleteMessages ==
    \A c \in Calls :
        LET f == call[c]
            all == <<Lit("Successfully deleted all torrents")>>
        IN  (/\ f.op = "delete_torrent_api"
             /\ f.pc = "done"
             /\ GotToken(f)
             /\ f.recv[2].kind = "response"
             /\ f.recv[2].status = 200)
            => /\ ~f.ret.raised
               /\ f.ret.val = all <=> f.args.hashes = <<"all">>
               /\ f.args.hashes /= <<"all">>
                  => /\ f.ret.val = <<Lit("Successfully deleted specified torrents: "),
                                      FStr(f.args.hashes)>>
                     /\ f.ret.val /= all

\* delete of "ALL" was answered 200 and returned the per-hash message
C13_Witness ==
    \E c \in Calls :
        /\ call[c].op = "delete_torrent_api"
        /\ call[c].pc = "done"
        /\ GotToken(call[c])
        /\ call[c].recv[2].kind = "response"
        /\ call[c].recv[2].status = 200
        /\ call[c].args.hashes = <<"ALL">>
        /\ call[c].ret.val[1] = Lit("Successfully deleted specified torrents: ")

\* C14: every transport client a call opens is closed by the time the call
\* ends, on every exit path (success, non-200 response, early return from
\* inside the client scope, transport error); the login client is closed
\* before the action client is opened, so a call never holds more than one
\* open client.
C14_ClientsClosed ==
    \A c \in Calls :
        LET f == call[c]
        IN  /\ f.pc \in {"idle", "done"} => f.clients = {}
            /\ f.pc = "login" => f.clients = {"login"}
            /\ f.pc = "action" => f.clients = {"action"}
            /\ Cardinality(f.clients) <= 1

\* add torrent left its client scope by the exception of a failed upload,
\* after an upload that was answered
C14_Witness ==
    \E c \in Calls :
        /\ call[c].op = "add_torrent_api"
        /\ call[c].pc = "done"
        /\ Len(call[c].recv) = 3
        /\ call[c].recv[2].kind = "response"
        /\ call[c].recv[3].kind = "error"
        /\ call[c].clients = {}

\* C15: every tool of main.py passes DEFAULT_HOST, DEFAULT_USERNAME and
\* DEFAULT_PASSWORD to its operation: the login request and every action
\* request of a call go to the configured base address, and the login request
\* carries the configured credentials.
C15_ToolsPassConfiguration ==
    \A c \in Calls :
        LET f == call[c]
        IN  f.pc /= "idle"
            => /\ \A i \in 1..Len(f.sent) : f.sent[i].host = <<"http://", "127.0.0.1:8080">>
               /\ f.sent[1].data = [username |-> <<"admin">>, password |-> <<"adminadmin">>]

====
